---- MODULE Spec2Model ----
(***************************************************************************)
(* Model of the habit reminder job (src/app): main() validates the         *)
(* configuration, initialises the storage pool and the delivery client and *)
(* calls run_job(), which evaluates every user in the user's own local     *)
(* calendar.                                                               *)
(*                                                                         *)
(* Time is counted in whole hours since an epoch: an instant is an integer *)
(* number of UTC hours, a wall-clock time is an integer number of local    *)
(* hours, and a calendar date is wall \div DayLen.  A timezone is an       *)
(* offset rule [off0, at, off1]: offset off0 before the UTC instant `at`,  *)
(* offset off1 from it on.                                                 *)
(***************************************************************************)
EXTENDS Integers, Sequences, FiniteSets, TLC

VARIABLES
    pc,              \* position of the process in main() / run_job()
    cfg,             \* the required settings that are set in the environment
    health,          \* health server: "off", "serving", "stopped"
    pool,            \* db._pool: "none" or "ready"
    client,          \* notifier._client: "none" or "ready"
    held,            \* pooled connections checked out and not yet closed
    tzdb,            \* the timezone database: key -> offset rule
    now,             \* the value datetime.now(timezone.utc) last returned
    users,           \* run_job: the list returned by fetch_users_with_phones
    idx,             \* run_job: position of the loop in users (0 before it)
    s1, s2, s3,      \* run_job: the three UTC boundaries of the current user
    local_yesterday, \* run_job: the current user's local yesterday
    log_rows,        \* the created_at of the Log rows the current user has
    logs,            \* run_job: the instants returned by fetch_user_logs_between
    days,            \* run_job: the set returned by _classify_days
    should_notify,   \* run_job: the verdict of the current user
    reason,          \* run_job: the reason code of the verdict
    notified, skipped, errors,   \* run_job: the three counters
    reported,        \* main: the counts logged by "run_complete", <<>> before
    exit_code,       \* the completion signal of the process, -1 while running
    audit            \* history: per user position, what happened to the user

locals == <<s1, s2, s3, local_yesterday, log_rows, logs, days, should_notify,
            reason>>
counters == <<notified, skipped, errors>>
clients == <<health, pool, client>>
vars == <<pc, cfg, health, pool, client, held, tzdb, now, users, idx,
          s1, s2, s3, local_yesterday, log_rows, logs, days, should_notify,
          reason, notified, skipped, errors, reported, exit_code, audit>>

(***************************************************************************)
(* Bounds of the model and constants of the program.                       *)
(***************************************************************************)
MaxUsers == 3
MaxLogs == 2
NumDays == 5
DayLen == 24
FirstDay == 11
Margin == 2

RequiredSettings ==
    {"MYSQL_HOST", "MYSQL_DB", "MYSQL_USER", "MYSQL_PASSWORD",
     "TWILIO_ACCOUNT_SID", "TWILIO_AUTH_TOKEN", "TWILIO_FROM"}

\* The identifiers a User row may carry: two known keys, the empty string and
\* an unknown key.
TzNames == {"UTC", "Zone/Local", "", "Not/AZone"}

(***************************************************************************)
(* Timezones (zoneinfo.ZoneInfo as used by logic.py).                      *)
(***************************************************************************)
Max2(a, b) == IF a >= b THEN a ELSE b

FixedZone(off) == [off0 |-> off, at |-> 0, off1 |-> off]

\* Offsets of the rules explored, and the sizes of the offset change at `at`:
\* no change, a DST hour forward or back, and a date-line change of a whole
\* day (Pacific/Apia 2011, America/Juneau 1867).
Offsets == {-10, -3, 0, 1, 15}
Jumps == {-DayLen, -1, 0, 1, DayLen}

\* The instants at which a rule may change its offset: every hour of one day.
TransitionInstants == ((FirstDay + 1) * DayLen) .. ((FirstDay + 2) * DayLen - 1)

\* tzinfo.utcoffset() must lie strictly between -24h and +24h. A zone that
\* skips a whole day does so from local midnight to local midnight (every
\* such change of the tz database does); the other changes happen at any
\* local hour.
ZoneRules ==
    { FixedZone(o) : o \in Offsets } \cup
    { r \in [off0 : Offsets, at : TransitionInstants,
             off1 : (-DayLen + 1) .. (DayLen - 1)] :
        /\ (r.off1 - r.off0) \in (Jumps \ {0})
        /\ (r.off1 - r.off0) = DayLen => (r.at + r.off0) % DayLen = 0 }

\* The instants datetime.now() may return in the window specification.
NowInstants == (FirstDay * DayLen) .. ((FirstDay + NumDays) * DayLen - 1)

\* ZoneInfo(key): raises for a key the database does not hold.
ZoneInfo(db, key) ==
    IF key \in DOMAIN db
    THEN [raised |-> FALSE, zone |-> db[key]]
    ELSE [raised |-> TRUE, zone |-> FixedZone(0)]

\* A resolution without the except clause: the error of ZoneInfo leaves it.
ZoneOrUtcRaising(db, tz_name) == ZoneInfo(db, tz_name)
\* logic.py 13-17, 32-36: try: ZoneInfo(tz_name) / except Exception: ZoneInfo("UTC")
ZoneOrUtc(db, tz_name) ==
    LET z == ZoneInfo(db, tz_name)
    IN  IF z.raised THEN ZoneInfo(db, "UTC") ELSE z

\* datetime.astimezone(zone) of an aware UTC instant (ZoneInfo.fromutc): the
\* offset in force at the instant.
OffsetAtInstant(zone, t) == IF t >= zone.at THEN zone.off1 ELSE zone.off0

\* ZoneInfo.utcoffset() of a wall time with fold = 0: the offset after the
\* change from the later of the two wall readings of the change on, so a wall
\* time in a gap or its first reading in an overlap takes the offset before.
OffsetAtWall(zone, w) ==
    IF w >= zone.at + Max2(zone.off0, zone.off1) THEN zone.off1 ELSE zone.off0

\* local date of an instant: dt.astimezone(z).date()
LocalDate(zone, t) == (t + OffsetAtInstant(zone, t)) \div DayLen

\* datetime.combine(d, datetime.min.time(), tzinfo=zone).astimezone(timezone.utc)
StartOfDayUtc(zone, d) == d * DayLen - OffsetAtWall(zone, d * DayLen)

\* A window whose three boundaries all take the offset in force at now.
ComputeWindowOffsetAtNow(db, tz_name, now_utc) ==
    LET z == ZoneOrUtc(db, tz_name)
        off == OffsetAtInstant(z.zone, now_utc)
        local_today == (now_utc + off) \div DayLen
    IN  [raised |-> z.raised,
         s1 |-> (local_today - 2) * DayLen - off,
         s2 |-> (local_today - 1) * DayLen - off,
         s3 |-> local_today * DayLen - off,
         local_yesterday |-> local_today - 1]

\* A window whose yesterday boundary is built from local_today.
ComputeWindowCopiedDate(db, tz_name, now_utc) ==
    LET z == ZoneOrUtc(db, tz_name)
        local_today == LocalDate(z.zone, now_utc)
    IN  [raised |-> z.raised,
         s1 |-> StartOfDayUtc(z.zone, local_today - 2),
         s2 |-> StartOfDayUtc(z.zone, local_today),
         s3 |-> StartOfDayUtc(z.zone, local_today),
         local_yesterday |-> local_today - 1]

\* _compute_window(tz_name), with now_utc the reading of the clock
ComputeWindow(db, tz_name, now_utc) ==
    LET z == ZoneOrUtc(db, tz_name)
        zone == z.zone
        local_today == LocalDate(zone, now_utc)
        yesterday == local_today - 1
        local_day_before == local_today - 2
    IN  [raised |-> z.raised,
         s1 |-> StartOfDayUtc(zone, local_day_before),
         s2 |-> StartOfDayUtc(zone, yesterday),
         s3 |-> StartOfDayUtc(zone, local_today),
         local_yesterday |-> yesterday]

\* _classify_days(tz_name, created_list); the rows are naive UTC datetimes,
\* which the function reads as UTC
ClassifyDays(db, tz_name, created_list) ==
    LET z == ZoneOrUtc(db, tz_name)
    IN  [raised |-> z.raised,
         days |-> { LocalDate(z.zone, dt) : dt \in created_list }]

(***************************************************************************)
(* Storage and delivery collaborators (db.py, notifier.py).                *)
(***************************************************************************)
Phones == {"", "+15550100"}

\* A User table of n rows; the primary key of the row at position i is i.
UserTable(n, tzs, phones) ==
    [i \in 1..n |-> [user_id |-> i, time_zone |-> tzs[i], phone_number |-> phones[i]]]

\* fetch_users_with_phones: WHERE phone_number IS NOT NULL AND phone_number <> ''
HasPhone(r) == r.phone_number # ""
ToUserTuple(r) == <<r.user_id, r.time_zone, r.phone_number>>
RECURSIVE MapTuples(_)
MapTuples(rows) ==
    IF rows = <<>> THEN <<>>
    ELSE <<ToUserTuple(Head(rows))>> \o MapTuples(Tail(rows))
SelectUsersWithPhones(table) == MapTuples(SelectSeq(table, HasPhone))

\* db.py 56-57, 79-80: finally: conn.close(), whether the query returned or
\* raised
HeldAfterQueryNoFinally(h, raised) == IF raised THEN h ELSE h - 1
HeldAfterQuery(h, raised) == h - 1

\* fetch_user_logs_between: created_at >= start_utc AND created_at < end_utc
LogsBetweenClosed(rows, start_utc, end_utc) ==
    { t \in rows : start_utc <= t /\ t <= end_utc }
LogsBetween(rows, start_utc, end_utc) ==
    { t \in rows : start_utc <= t /\ t < end_utc }

(***************************************************************************)
(* The fixture of the job specification: the timezone database, the clock  *)
(* readings and the Log rows a user may have.                              *)
(***************************************************************************)
\* "Zone/Local" moves its clocks forward at local midnight of day FirstDay.
JobTzdb ==
    [k \in {"UTC", "Zone/Local"} |->
        IF k = "UTC" THEN FixedZone(0)
        ELSE [off0 |-> -3, at |-> FirstDay * DayLen + 3, off1 |-> -2]]

\* The readings of the clock during the run: 02:00 UTC of day FirstDay + 1.
JobNows == {(FirstDay + 1) * DayLen + 2}

\* Instants of Log rows: before every window, and in the days FirstDay - 1,
\* FirstDay and FirstDay + 1 on either side of the local midnights.
LogInstants ==
    LET base == (FirstDay - 1) * DayLen
    IN  {base - 10, base + 1, base + DayLen + 1, base + DayLen + 6,
         base + 2 * DayLen + 1}
LogTables == { r \in SUBSET LogInstants : Cardinality(r) <= MaxLogs }

(***************************************************************************)
(* The decisions of run_job and main.                                      *)
(***************************************************************************)
\* logic.py 59-66: the verdict from the two booleans
VerdictIgnoringDayBefore(has_day_before, has_yesterday) ==
    IF ~has_yesterday
    THEN [should_notify |-> TRUE, reason |-> "no_logs_two_days"]
    ELSE [should_notify |-> FALSE, reason |-> ""]
Verdict(has_day_before, has_yesterday) ==
    IF ~has_day_before /\ ~has_yesterday
    THEN [should_notify |-> TRUE, reason |-> "no_logs_two_days"]
    ELSE IF has_day_before /\ ~has_yesterday
    THEN [should_notify |-> TRUE, reason |-> "missed_yesterday"]
    ELSE [should_notify |-> FALSE, reason |-> ""]

\* logic.py 67: whether the delivery collaborator is called
NeedsDispatchAlways(notify) == TRUE
NeedsDispatch(notify) == notify

\* logic.py 74-76: where the loop goes after the handler of a user's failure
UserErrorPcAbort == "run_return"
UserErrorPc == "for_next"

\* logic.py 69-70: notified += 1 follows the return of send_sms
NotifiedAfterFailedSendCounted(n) == n + 1
NotifiedAfterFailedSend(n) == n

\* config.py 17-34: the settings validate() reports missing
MissingForgetsTwilioFrom(c) == (RequiredSettings \ {"TWILIO_FROM"}) \ c
Missing(c) == RequiredSettings \ c

\* main.py 32
ExitCodeAlwaysZero(errs) == 0
ExitCode(errs) == IF errs = 0 THEN 0 ELSE 1

(***************************************************************************)
(* The history kept for the properties: per position in users, the verdict *)
(* reached, the calls of send_sms, whether one returned, and the step that *)
(* raised.                                                                 *)
(***************************************************************************)
NoAudit == [verdict |-> "none", sends |-> 0, delivered |-> FALSE, failed_at |-> ""]

NoLocals ==
    /\ s1' = 0 /\ s2' = 0 /\ s3' = 0 /\ local_yesterday' = 0
    /\ log_rows' = {} /\ logs' = {} /\ days' = {}
    /\ should_notify' = FALSE /\ reason' = ""

Init ==
    /\ pc = "main"
    /\ cfg \in SUBSET RequiredSettings
    /\ health = "off" /\ pool = "none" /\ client = "none" /\ held = 0
    /\ tzdb = JobTzdb
    /\ now = 0
    /\ users = <<>> /\ idx = 0
    /\ s1 = 0 /\ s2 = 0 /\ s3 = 0 /\ local_yesterday = 0
    /\ log_rows = {} /\ logs = {} /\ days = {}
    /\ should_notify = FALSE /\ reason = ""
    /\ notified = 0 /\ skipped = 0 /\ errors = 0
    /\ reported = <<>> /\ exit_code = -1
    /\ audit = <<>>

(***************************************************************************)
(* main()                                                                  *)
(***************************************************************************)
\* main.py 15-16: cfg.validate() raises ValueError, which leaves main
Validate ==
    /\ pc = "main"
    /\ IF Missing(cfg) # {}
       THEN pc' = "config_error" /\ exit_code' = 1
       ELSE pc' = "start_health" /\ exit_code' = exit_code
    /\ UNCHANGED <<cfg, clients, held, tzdb, now, users, idx, locals, counters,
                   reported, audit>>

\* main.py 17-18: setup_logging, start_health_server
StartHealthServer ==
    /\ pc = "start_health"
    /\ health' = "serving"
    /\ pc' = "init_pool"
    /\ UNCHANGED <<cfg, pool, client, held, tzdb, now, users, idx, locals,
                   counters, reported, exit_code, audit>>

\* main.py 19-27, db.py 12-34: the pool connects on construction and raises
\* when the server cannot be reached
InitPool ==
    /\ pc = "init_pool"
    /\ \/ pool' = "ready" /\ pc' = "init_client" /\ exit_code' = exit_code
       \/ pool' = pool /\ pc' = "crashed" /\ exit_code' = 1
    /\ UNCHANGED <<cfg, health, client, held, tzdb, now, users, idx, locals,
                   counters, reported, audit>>

\* main.py 28, notifier.py 8-12
InitClient ==
    /\ pc = "init_client"
    /\ client' = "ready"
    /\ pc' = "users_conn"
    /\ UNCHANGED <<cfg, health, pool, held, tzdb, now, users, idx, locals,
                   counters, reported, exit_code, audit>>

(***************************************************************************)
(* run_job(): the list of users                                            *)
(***************************************************************************)
\* logic.py 47, db.py 37-40, 44: _get_conn() checks a connection out or raises;
\* nothing in run_job catches it
UsersGetConn ==
    /\ pc = "users_conn"
    /\ pool = "ready"
    /\ \/ held' = held + 1 /\ pc' = "users_query" /\ exit_code' = exit_code
       \/ held' = held /\ pc' = "crashed" /\ exit_code' = 1
    /\ UNCHANGED <<cfg, clients, tzdb, now, users, idx, locals, counters,
                   reported, audit>>

\* db.py 45-57: the query returns the rows with a phone number or raises;
\* finally: conn.close(). logic.py 48-50 set the counters.
UsersQuery ==
    /\ pc = "users_query"
    /\ \/ /\ held' = HeldAfterQuery(held, FALSE)
          /\ \E n \in 0..MaxUsers :
               \E tzs \in [1..n -> TzNames], phones \in [1..n -> Phones] :
                   users' = SelectUsersWithPhones(UserTable(n, tzs, phones))
          /\ audit' = [i \in 1..Len(users') |-> NoAudit]
          /\ notified' = 0 /\ skipped' = 0 /\ errors' = 0
          /\ pc' = "for_next"
          /\ exit_code' = exit_code
       \/ /\ held' = HeldAfterQuery(held, TRUE)
          /\ pc' = "crashed"
          /\ exit_code' = 1
          /\ UNCHANGED <<users, audit, counters>>
    /\ UNCHANGED <<cfg, clients, tzdb, now, idx, locals, reported>>

(***************************************************************************)
(* run_job(): one iteration of the loop                                    *)
(***************************************************************************)
\* logic.py 74-76: the handler of the per-user try
UserError(stage) ==
    /\ errors' = errors + 1
    /\ audit' = [audit EXCEPT ![idx].failed_at = stage]
    /\ pc' = UserErrorPc
    /\ UNCHANGED <<notified, skipped>>

\* logic.py 51-53: the next user, and _compute_window(tz_name)
ForNext ==
    /\ pc = "for_next"
    /\ idx < Len(users)
    /\ idx' = idx + 1
    /\ \E t \in JobNows :
         /\ now' = t
         /\ LET w == ComputeWindow(tzdb, users[idx'][2], t)
            IN  IF w.raised
                THEN /\ errors' = errors + 1
                     /\ audit' = [audit EXCEPT ![idx'].failed_at = "window"]
                     /\ pc' = UserErrorPc
                     /\ NoLocals
                ELSE /\ s1' = w.s1 /\ s2' = w.s2 /\ s3' = w.s3
                     /\ local_yesterday' = w.local_yesterday
                     /\ log_rows' = {} /\ logs' = {} /\ days' = {}
                     /\ should_notify' = FALSE /\ reason' = ""
                     /\ pc' = "logs_conn"
                     /\ UNCHANGED <<errors, audit>>
    /\ UNCHANGED <<cfg, clients, held, tzdb, users, notified, skipped,
                   reported, exit_code>>

\* logic.py 54, db.py 37-40, 61: _get_conn() for the log query
LogsGetConn ==
    /\ pc = "logs_conn"
    /\ \/ /\ held' = held + 1
          /\ pc' = "logs_query"
          /\ UNCHANGED <<locals, counters, audit>>
       \/ /\ held' = held
          /\ UserError("get_conn")
          /\ NoLocals
    /\ UNCHANGED <<cfg, clients, tzdb, now, users, idx, reported, exit_code>>

\* db.py 62-80: the rows of the user in [start_utc, end_utc), or the query
\* raises; finally: conn.close()
LogsQuery ==
    /\ pc = "logs_query"
    /\ \/ /\ held' = HeldAfterQuery(held, FALSE)
          /\ \E rows \in LogTables :
                /\ log_rows' = rows
                /\ logs' = LogsBetween(rows, s1, s3)
          /\ pc' = "evaluate"
          /\ UNCHANGED <<s1, s2, s3, local_yesterday, days, should_notify,
                         reason, counters, audit>>
       \/ /\ held' = HeldAfterQuery(held, TRUE)
          /\ UserError("query")
          /\ NoLocals
    /\ UNCHANGED <<cfg, clients, tzdb, now, users, idx, reported, exit_code>>

\* logic.py 55-66: _classify_days and the decision
Evaluate ==
    /\ pc = "evaluate"
    /\ LET c == ClassifyDays(tzdb, users[idx][2], logs)
       IN  IF c.raised
           THEN /\ UserError("classify")
                /\ NoLocals
           ELSE LET day_before == local_yesterday - 1
                    has_day_before == day_before \in c.days
                    has_yesterday == local_yesterday \in c.days
                    v == Verdict(has_day_before, has_yesterday)
                IN  /\ days' = c.days
                    /\ should_notify' = v.should_notify
                    /\ reason' = v.reason
                    /\ audit' = [audit EXCEPT
                                   ![idx].verdict =
                                       IF v.should_notify THEN "NOTIFY" ELSE "SKIP"]
                    /\ pc' = "dispatch"
                    /\ UNCHANGED <<s1, s2, s3, local_yesterday, log_rows, logs,
                                   counters>>
    /\ UNCHANGED <<cfg, clients, held, tzdb, now, users, idx, reported, exit_code>>

\* logic.py 67-71, notifier.py 15-23: send_sms returns, or logs and re-raises
Dispatch ==
    /\ pc = "dispatch"
    /\ NeedsDispatch(should_notify)
    /\ \/ /\ notified' = notified + 1
          /\ audit' = [audit EXCEPT ![idx].sends = @ + 1,
                                    ![idx].delivered = TRUE]
          /\ pc' = "for_next"
          /\ UNCHANGED <<skipped, errors>>
       \/ /\ notified' = NotifiedAfterFailedSend(notified)
          /\ errors' = errors + 1
          /\ audit' = [audit EXCEPT ![idx].sends = @ + 1,
                                    ![idx].failed_at = "send"]
          /\ pc' = UserErrorPc
          /\ skipped' = skipped
    /\ NoLocals
    /\ UNCHANGED <<cfg, clients, held, tzdb, now, users, idx, reported, exit_code>>

\* logic.py 72-73
Skip ==
    /\ pc = "dispatch"
    /\ ~NeedsDispatch(should_notify)
    /\ skipped' = skipped + 1
    /\ pc' = "for_next"
    /\ NoLocals
    /\ UNCHANGED <<cfg, clients, held, tzdb, now, users, idx, notified, errors,
                   reported, exit_code, audit>>

\* logic.py 77, main.py 29-32: run_job returns the counts; main logs
\* run_complete, stops the health server and returns the completion signal
RunComplete ==
    /\ pc \in {"for_next", "run_return"}
    /\ pc = "for_next" => idx >= Len(users)
    /\ reported' = <<notified, skipped, errors>>
    /\ health' = "stopped"
    /\ exit_code' = ExitCode(errors)
    /\ pc' = "exited"
    /\ UNCHANGED <<cfg, pool, client, held, tzdb, now, users, idx, locals,
                   counters, audit>>

Next ==
    \/ Validate
    \/ StartHealthServer
    \/ InitPool
    \/ InitClient
    \/ UsersGetConn
    \/ UsersQuery
    \/ ForNext
    \/ LogsGetConn
    \/ LogsQuery
    \/ Evaluate
    \/ Dispatch
    \/ Skip
    \/ RunComplete

Spec == Init /\ [][Next]_vars

(***************************************************************************)
(* The window calculator on its own: one call of _compute_window for one   *)
(* user, for every rule of ZoneRules behind the key "Zone/Local", every    *)
(* identifier and every reading of the clock in NowInstants.               *)
(***************************************************************************)
InitWindow ==
    /\ pc = "window_call"
    /\ cfg = RequiredSettings
    /\ health = "serving" /\ pool = "ready" /\ client = "ready" /\ held = 0
    /\ \E r \in ZoneRules, tz \in TzNames :
         \* the rule behind "Zone/Local" matters to a user of that zone only
         /\ tz # "Zone/Local" => r = FixedZone(0)
         /\ tzdb = [k \in {"UTC", "Zone/Local"} |->
                      IF k = "UTC" THEN FixedZone(0) ELSE r]
         /\ users = << <<1, tz, "+15550100">> >>
    /\ now \in NowInstants
    /\ idx = 1
    /\ s1 = 0 /\ s2 = 0 /\ s3 = 0 /\ local_yesterday = 0
    /\ log_rows = {} /\ logs = {} /\ days = {}
    /\ should_notify = FALSE /\ reason = ""
    /\ notified = 0 /\ skipped = 0 /\ errors = 0
    /\ reported = <<>> /\ exit_code = -1
    /\ audit = <<NoAudit>>

\* logic.py 53: s1, s2, s3, local_yesterday = _compute_window(tz_name)
CallComputeWindow ==
    /\ pc = "window_call"
    /\ LET w == ComputeWindow(tzdb, users[idx][2], now)
       IN  /\ s1' = w.s1 /\ s2' = w.s2 /\ s3' = w.s3
           /\ local_yesterday' = w.local_yesterday
           /\ pc' = IF w.raised THEN "window_raised" ELSE "window_done"
    /\ UNCHANGED <<cfg, clients, held, tzdb, now, users, idx, log_rows, logs,
                   days, should_notify, reason, counters, reported, exit_code,
                   audit>>

\* The instants a Log row of the user may carry: every hour of the window and
\* Margin hours on either side of it, none later than the reading of the
\* clock.
WindowLogInstants == { t \in (s1 - Margin) .. (s3 + Margin - 1) : t <= now }

\* logic.py 54-55: logs = db.fetch_user_logs_between(user_id, s1, s3) for a
\* user with one Log row, and days = _classify_days(tz_name, logs)
CallFetchAndClassify ==
    /\ pc = "window_done"
    /\ \E t \in WindowLogInstants :
         /\ log_rows' = {t}
         /\ logs' = LogsBetween({t}, s1, s3)
         /\ days' = ClassifyDays(tzdb, users[idx][2], logs').days
    /\ pc' = "classified"
    /\ UNCHANGED <<cfg, clients, held, tzdb, now, users, idx, s1, s2, s3,
                   local_yesterday, should_notify, reason, counters, reported,
                   exit_code, audit>>

NextWindow ==
    \/ CallComputeWindow
    \/ CallFetchAndClassify

SpecWindow == InitWindow /\ [][NextWindow]_vars

(***************************************************************************)
(* Properties.                                                             *)
(***************************************************************************)
InLoop == idx \in 1..Len(users)

\* The users, by position, the history says something of.
Positions == DOMAIN audit
Count(P(_)) == Cardinality({ i \in Positions : P(i) })
WasDelivered(i) == audit[i].verdict = "NOTIFY" /\ audit[i].delivered
WasSkipVerdict(i) == audit[i].verdict = "SKIP"
HasFailed(i) == audit[i].failed_at # ""
WasEvaluated(i) == audit[i].verdict # "none" \/ audit[i].failed_at # ""

\* The rule the current user's identifier resolves to, and its offset change.
CurrentRule ==
    IF users[idx][2] \in DOMAIN tzdb THEN tzdb[users[idx][2]] ELSE tzdb["UTC"]
CurrentJump == CurrentRule.off1 - CurrentRule.off0

\* C1: at the verdict of every user, (hasDayBefore, hasYesterday) alone decide:
\* (F,F) NOTIFY no_logs_two_days, (T,F) NOTIFY missed_yesterday, (F,T) and
\* (T,T) SKIP.
C1_DecisionTable ==
    pc = "dispatch" =>
        LET has_day_before == (local_yesterday - 1) \in days
            has_yesterday == local_yesterday \in days
        IN  /\ (~has_day_before /\ ~has_yesterday)
                => (should_notify /\ reason = "no_logs_two_days")
            /\ (has_day_before /\ ~has_yesterday)
                => (should_notify /\ reason = "missed_yesterday")
            /\ has_yesterday => (~should_notify /\ reason = "")
            /\ audit[idx].verdict = (IF should_notify THEN "NOTIFY" ELSE "SKIP")

C1_Witness ==
    /\ pc = "dispatch"
    /\ (local_yesterday - 1) \in days
    /\ local_yesterday \notin days
    /\ reason = "missed_yesterday"

\* C2: every failure of a user adds exactly 1 to errors and the loop goes on:
\* errors counts the users that failed, and when the run returns every user of
\* the list was evaluated, the ones that did not fail counted as notified or
\* skipped.
C2_FaultIsolation ==
    /\ errors = Count(HasFailed)
    /\ pc = "exited" =>
          /\ \A i \in 1..Len(users) : WasEvaluated(i)
          /\ notified + skipped = Len(users) - errors

C2_Witness ==
    /\ pc = "exited"
    /\ Len(users) = 3
    /\ audit[1].failed_at = "query"
    /\ errors = 1
    /\ notified + skipped = 2

\* C3: once the configuration has validated and the run has started, the
\* process ends only with the three counts reported, whichever storage or
\* delivery call failed, the call that lists the users included.
C3_RunAlwaysReports ==
    (client = "ready" /\ pc \in {"crashed", "exited"}) => Len(reported) = 3

\* C4: the completion signal returned by main is 0 exactly when errored is 0.
C4_ExitCode ==
    pc = "exited" =>
        /\ (exit_code = 0) <=> (errors = 0)
        /\ errors > 0 => exit_code > 0

C4_Witness ==
    pc = "exited" /\ errors > 0 /\ notified > 0 /\ skipped > 0 /\ exit_code = 1

\* C5 (as claimed): the three boundaries are strictly increasing for every
\* rule and every instant.
C5_StrictOrder ==
    pc = "window_done" => (s1 < s2 /\ s2 < s3)

\* C5 (amended): the three boundaries never decrease and windowStart is
\* before todayStart; they are strictly increasing whenever the rule's offset
\* changes by less than a whole day, which covers every DST change.
C5_OrderedStrictBelowDay ==
    pc = "window_done" =>
        /\ s1 <= s2 /\ s2 <= s3 /\ s1 < s3
        /\ CurrentJump < DayLen => (s1 < s2 /\ s2 < s3)

C5_Witness ==
    /\ pc = "window_done"
    /\ CurrentJump \in {-1, 1}
    /\ s1 <= CurrentRule.at /\ CurrentRule.at < s3
    /\ s1 < s2 /\ s2 < s3

\* C6: for an unknown or empty identifier both functions return, with the
\* window and the dates of UTC, and no user fails in them.
C6_FallbackToUtc ==
    /\ \A i \in Positions : audit[i].failed_at \notin {"window", "classify"}
    /\ (InLoop /\ users[idx][2] \notin DOMAIN tzdb) =>
          /\ pc \in {"logs_conn", "logs_query", "evaluate", "dispatch"} =>
                /\ s3 = (now \div DayLen) * DayLen
                /\ s2 = s3 - DayLen
                /\ s1 = s3 - 2 * DayLen
                /\ local_yesterday = (now \div DayLen) - 1
          /\ pc = "dispatch" => days = { t \div DayLen : t \in logs }

C6_Witness ==
    /\ pc = "dispatch"
    /\ users[idx][2] = ""
    /\ Cardinality(days) = 2
    /\ \E i \in 1..(idx - 1) :
          users[i][2] = "Not/AZone" /\ audit[i].verdict # "none"

\* C7: the counters are the numbers of users delivered to, of users with a
\* SKIP verdict and of users that failed.
C7_Counts ==
    pc = "exited" =>
        /\ notified = Count(WasDelivered)
        /\ skipped = Count(WasSkipVerdict)
        /\ errors = Count(HasFailed)
        /\ reported = <<notified, skipped, errors>>

C7_Witness ==
    /\ pc = "exited"
    /\ Len(users) = 3
    /\ audit[1].verdict = "NOTIFY" /\ audit[2].verdict = "NOTIFY"
    /\ audit[3].verdict = "SKIP"
    /\ reported = <<2, 1, 0>>

\* C8: with a required setting missing nothing is done: no pool, no client,
\* no health server, no connection, no user list, no query, no message.
C8_ConfigErrorFirst ==
    (RequiredSettings \ cfg) # {} =>
        /\ pc \in {"main", "config_error"}
        /\ pool = "none" /\ client = "none" /\ health = "off" /\ held = 0
        /\ users = <<>> /\ audit = <<>> /\ idx = 0
        /\ reported = <<>>

C8_Witness ==
    pc = "config_error" /\ cfg = RequiredSettings \ {"TWILIO_FROM"}

\* The local date whose wall clock skips (forward) or repeats (back) the hour
\* of the current rule's change.
ChangeDay ==
    LET r == CurrentRule
    IN  (r.at + (IF r.off0 <= r.off1 THEN r.off0 ELSE r.off1)) \div DayLen

\* C9: with a DST change of one hour on a local day of the window, the two
\* boundaries around that day are 23 (forward) or 25 (back) hours apart, and
\* the other two are 24 hours apart.
C9_DstDayLength ==
    (pc = "window_done" /\ CurrentJump \in {-1, 1}) =>
        /\ ChangeDay = local_yesterday - 1 =>
              (s2 - s1 = DayLen - CurrentJump /\ s3 - s2 = DayLen)
        /\ ChangeDay = local_yesterday =>
              (s3 - s2 = DayLen - CurrentJump /\ s2 - s1 = DayLen)
        /\ ChangeDay \notin {local_yesterday - 1, local_yesterday} =>
              (s2 - s1 = DayLen /\ s3 - s2 = DayLen)

\* clocks moving forward at the local midnight of yesterday
C9_Witness ==
    /\ pc = "window_done"
    /\ CurrentJump = 1
    /\ CurrentRule.at = s2
    /\ (s2 + CurrentRule.off0) % DayLen = 0
    /\ ChangeDay = local_yesterday
    /\ s3 - s2 = DayLen - 1

\* C10: send_sms is called at most once per user and only after a NOTIFY
\* verdict; a user whose fetch failed or whose verdict is SKIP gets no call,
\* and a failed call is the user's last: errored, not notified.
C10_DispatchOnce ==
    \A i \in Positions :
        /\ audit[i].sends <= 1
        /\ audit[i].sends = 1 => audit[i].verdict = "NOTIFY"
        /\ audit[i].verdict \in {"SKIP", "none"} => audit[i].sends = 0
        /\ audit[i].failed_at \in {"get_conn", "query"} =>
              (audit[i].sends = 0 /\ audit[i].verdict = "none")
        /\ audit[i].failed_at = "send" =>
              (audit[i].sends = 1 /\ ~audit[i].delivered)
        /\ audit[i].delivered => (audit[i].sends = 1 /\ audit[i].failed_at = "")

C10_Witness ==
    /\ pc = "exited"
    /\ \E i, j, k \in Positions :
          /\ audit[i].failed_at = "send" /\ i < j
          /\ audit[j].verdict = "SKIP"
          /\ audit[k].failed_at = "query"
    /\ errors = 2 /\ notified = 0

\* C11: at most one pooled connection is held at any point of a run, and
\* only between the checkout and the end of one query: none is held once
\* fetch_users_with_phones or fetch_user_logs_between has returned or raised,
\* so none while a user is evaluated, a message is sent or the next user is
\* taken.
C11_ConnectionPerQuery ==
    /\ held \in {0, 1}
    /\ held = 1 => pc \in {"users_query", "logs_query"}
    /\ pc \in {"users_query", "logs_query"} => held = 1

\* a user is at the delivery step after an earlier user's log query raised
C11_Witness ==
    /\ pc = "dispatch"
    /\ should_notify
    /\ held = 0
    /\ \E i \in 1..(idx - 1) : audit[i].failed_at = "query"

\* The steps of one iteration of the loop, and the step that ends one.
InIteration == pc \in {"logs_conn", "logs_query", "evaluate", "dispatch"}
IterationEnds == InIteration /\ pc' = "for_next"
ExactlyOneGrew ==
    \/ notified' = notified + 1 /\ skipped' = skipped /\ errors' = errors
    \/ notified' = notified /\ skipped' = skipped + 1 /\ errors' = errors
    \/ notified' = notified /\ skipped' = skipped /\ errors' = errors + 1

C12_SumIsPosition ==
    /\ (pc = "for_next" /\ idx = 0) =>
          (notified = 0 /\ skipped = 0 /\ errors = 0)
    /\ pc = "for_next" => notified + skipped + errors = idx
    /\ InIteration => notified + skipped + errors = idx - 1
    /\ pc = "exited" =>
          (idx = Len(users) /\ notified + skipped + errors = Len(users))

C12_OneCounterPerIteration ==
    /\ IterationEnds => ExactlyOneGrew
    /\ ~IterationEnds => UNCHANGED counters

\* C12: the counters are 0 when the loop starts; the step that ends an
\* iteration adds 1 to exactly one of them and no other step changes them;
\* after k users their sum is k and at return it is the number of users
\* listed.
C12_CountersPartitionUsers ==
    []C12_SumIsPosition /\ [][C12_OneCounterPerIteration]_vars

C12_Witness ==
    /\ pc = "exited"
    /\ Len(users) = 3
    /\ notified = 1 /\ skipped = 1 /\ errors = 1

\* The current user has a Log row whose instant falls on local date d.
HasLogOn(d) == \E t \in log_rows : LocalDate(CurrentRule, t) = d

\* The agreement of the query window and the classifier, for the rules whose
\* offset change is in J.
WindowAgrees(J) ==
    (pc = "classified" /\ CurrentJump \in J) =>
        /\ days \subseteq {local_yesterday - 1, local_yesterday}
        /\ \A t \in logs : (s2 <= t /\ t < s3) => days = {local_yesterday}
        /\ (local_yesterday - 1) \in days <=> HasLogOn(local_yesterday - 1)
        /\ local_yesterday \in days <=> HasLogOn(local_yesterday)

\* C13: for every rule and every reading of the clock, a log in
\* [windowStart, todayStart) is classified as localDayBefore or
\* localYesterday and nothing else, one in [yesterdayStart, todayStart) as
\* localYesterday, and hasDayBefore and hasYesterday are true exactly when
\* the user has a log on that local day.
C13_WindowMatchesClassifier == WindowAgrees(Jumps)

====
